---- MODULE Spec2Model ----
(***************************************************************************)
(* A model of pine-ipc-rs (src/src/lib.rs): the PINE batch encoder         *)
(* (PINEBatch), the request/response client (PINE::send_raw, PINE::send),  *)
(* the response decoder (read_u8 .. read_u64, read_string) and the client's *)
(* mutex, together with a remote peer that speaks the PINE wire format.    *)
(*                                                                         *)
(* Bytes are the integers 0..255.  u8/u16/u32/u64 values below 2^31 are    *)
(* integers; every value of 2^31 or more, which TLC's integers cannot      *)
(* hold, is the one value Wide.                                            *)
(***************************************************************************)
EXTENDS Integers, Sequences, FiniteSets, TLC

(***************************************************************************)
(* Bounds of the model.                                                    *)
(***************************************************************************)
\* the largest number of add calls on one batch in SpecBatch
MaxCmds == 2
\* the largest number of commands of a batch that is sent in SpecSend
MaxSendCmds == 2
\* the largest number of send calls on one connection in SpecSend
MaxSends == 2
\* the largest number of send_raw calls on one connection in SpecConc
MaxRawCalls == 2
\* the number of threads that share the client
NCallers == 2
\* the most bytes one write of write_all takes
WriteChunk == 8

(***************************************************************************)
(* Little-endian conversions: uN::to_le_bytes and uN::from_le_bytes.       *)
(***************************************************************************)
RECURSIVE to_le_bytes(_, _)
\* the n little-endian bytes of the unsigned value v, least significant first
to_le_bytes(v, n) ==
    IF n = 0 THEN << >> ELSE << v % 256 >> \o to_le_bytes(v \div 256, n - 1)

\* TRUE when the little-endian bytes bs denote a value below 2^31
FitsInt(bs) ==
    \A i \in 1..Len(bs) : (i > 4 => bs[i] = 0) /\ (i = 4 => bs[i] < 128)

RECURSIVE LeValue(_)
\* the value of little-endian bytes that fit an integer
LeValue(bs) ==
    IF bs = << >> THEN 0 ELSE Head(bs) + 256 * LeValue(Tail(bs))

\* the value the model gives every integer of 2^31 or more
Wide == -1

\* uN::from_le_bytes(buf)
from_le_bytes(bs) ==
    IF FitsInt(bs) THEN LeValue(SubSeq(bs, 1, IF Len(bs) < 4 THEN Len(bs) ELSE 4))
    ELSE Wide

(***************************************************************************)
(* PINECommand and its opcode table.                                       *)
(***************************************************************************)
ReadTags == {"MsgRead8", "MsgRead16", "MsgRead32", "MsgRead64"}
StateTags == {"MsgSaveState", "MsgLoadState"}
PlainTags == {"MsgVersion", "MsgTitle", "MsgID", "MsgUUID", "MsgGameVersion",
              "MsgStatus", "MsgUnimplemented"}

\* the memory addresses, values and state slots the callers use
Mems == {16909060, 255}
Vals8 == {0, 171}
Vals16 == {258, 65535}
Vals32 == {16909060, 1}
Vals64 == {16909060, 2147483647}
Slots == {0, 7}

\* every PINECommand the callers may add to a batch
PINECommand ==
    {[tag |-> t, mem |-> m] : t \in ReadTags, m \in Mems}
    \cup {[tag |-> "MsgWrite8", mem |-> m, val |-> v] : m \in Mems, v \in Vals8}
    \cup {[tag |-> "MsgWrite16", mem |-> m, val |-> v] : m \in Mems, v \in Vals16}
    \cup {[tag |-> "MsgWrite32", mem |-> m, val |-> v] : m \in Mems, v \in Vals32}
    \cup {[tag |-> "MsgWrite64", mem |-> m, val |-> v] : m \in Mems, v \in Vals64}
    \cup {[tag |-> t, sta |-> s] : t \in StateTags, s \in Slots}
    \cup {[tag |-> t] : t \in PlainTags}

\* PINECommand::to_opcode
to_opcode(command) ==
    CASE command.tag = "MsgRead8" -> 0
      [] command.tag = "MsgRead16" -> 1
      [] command.tag = "MsgRead32" -> 2
      [] command.tag = "MsgRead64" -> 3
      [] command.tag = "MsgWrite8" -> 4
      [] command.tag = "MsgWrite16" -> 5
      [] command.tag = "MsgWrite32" -> 6
      [] command.tag = "MsgWrite64" -> 7
      [] command.tag = "MsgVersion" -> 8
      [] command.tag = "MsgSaveState" -> 9
      [] command.tag = "MsgLoadState" -> 10
      [] command.tag = "MsgTitle" -> 11
      [] command.tag = "MsgID" -> 12
      [] command.tag = "MsgUUID" -> 13
      [] command.tag = "MsgGameVersion" -> 14
      [] command.tag = "MsgStatus" -> 15
      [] command.tag = "MsgUnimplemented" -> 255

(***************************************************************************)
(* PINEBatch: new, clear, add, finalize as functions of the batch          *)
(* [buffer, commands].                                                     *)
(***************************************************************************)
\* PINEBatch::new
new == [buffer |-> << 0, 0, 0, 0 >>, commands |-> << >>]

\* PINEBatch::clear
clear(batch) == [buffer |-> << >>, commands |-> << >>]

\* add_payload with the value of MsgWrite16 pushed as one byte
add_payload_narrow(command) ==
    CASE command.tag \in ReadTags -> to_le_bytes(command.mem, 4)
      [] command.tag = "MsgWrite8" ->
            to_le_bytes(command.mem, 4) \o << command.val >>
      [] command.tag = "MsgWrite16" ->
            to_le_bytes(command.mem, 4) \o << command.val % 256 >>
      [] command.tag = "MsgWrite32" ->
            to_le_bytes(command.mem, 4) \o to_le_bytes(command.val, 4)
      [] command.tag = "MsgWrite64" ->
            to_le_bytes(command.mem, 4) \o to_le_bytes(command.val, 8)
      [] command.tag \in StateTags -> << command.sta >>
      [] OTHER -> << >>

\* add_payload with a MsgWrite32 payload of 9 bytes (the value pushed as 5 bytes)
add_payload_nine(command) ==
    CASE command.tag \in ReadTags -> to_le_bytes(command.mem, 4)
      [] command.tag = "MsgWrite8" ->
            to_le_bytes(command.mem, 4) \o << command.val >>
      [] command.tag = "MsgWrite16" ->
            to_le_bytes(command.mem, 4) \o to_le_bytes(command.val, 2)
      [] command.tag = "MsgWrite32" ->
            to_le_bytes(command.mem, 4) \o to_le_bytes(command.val, 5)
      [] command.tag = "MsgWrite64" ->
            to_le_bytes(command.mem, 4) \o to_le_bytes(command.val, 8)
      [] command.tag \in StateTags -> << command.sta >>
      [] OTHER -> << >>

\* the bytes the match of PINEBatch::add appends after the opcode byte
add_payload(command) ==
    CASE command.tag \in ReadTags -> to_le_bytes(command.mem, 4)
      [] command.tag = "MsgWrite8" ->
            to_le_bytes(command.mem, 4) \o << command.val >>
      [] command.tag = "MsgWrite16" ->
            to_le_bytes(command.mem, 4) \o to_le_bytes(command.val, 2)
      [] command.tag = "MsgWrite32" ->
            to_le_bytes(command.mem, 4) \o to_le_bytes(command.val, 4)
      [] command.tag = "MsgWrite64" ->
            to_le_bytes(command.mem, 4) \o to_le_bytes(command.val, 8)
      [] command.tag \in StateTags -> << command.sta >>
      [] OTHER -> << >>

\* PINEBatch::add
add(batch, command) ==
    [buffer |-> batch.buffer \o << to_opcode(command) >> \o add_payload(command),
     commands |-> Append(batch.commands, command)]

\* Vec::splice(0..4, ..) panics when the buffer holds fewer than 4 bytes
finalize_panics(batch) == Len(batch.buffer) < 4

\* finalize writing the length of the commands alone (the 4 length bytes left out)
finalize_short(batch) ==
    [buffer |-> to_le_bytes(Len(batch.buffer) - 4, 4)
                    \o SubSeq(batch.buffer, 5, Len(batch.buffer)),
     commands |-> batch.commands]

\* finalize inserting the length in front of the buffer (splice(0..0, ..))
finalize_insert(batch) ==
    [buffer |-> to_le_bytes(Len(batch.buffer), 4) \o batch.buffer,
     commands |-> batch.commands]

\* PINEBatch::finalize on a buffer of at least 4 bytes (len() as u32 keeps the
\* length: the buffers of the model stay far below 2^32 bytes)
finalize(batch) ==
    [buffer |-> to_le_bytes(Len(batch.buffer), 4)
                    \o SubSeq(batch.buffer, 5, Len(batch.buffer)),
     commands |-> batch.commands]

(***************************************************************************)
(* The response decoder: read_u8 .. read_u64 and read_string over a reader *)
(* [data, pos] (std::io::Cursor), PINEStatus::from, and the decoding loop  *)
(* of PINE::send.  A read returns [ok, val, pos]: ok is "ok", "io" (the    *)
(* reader ended: read_exact's UnexpectedEof) or "panic".                   *)
(***************************************************************************)
\* a read that takes what is left of a reader that ends early, zero-filled,
\* where read_exact fails
read_impl_lenient(data, pos, size) ==
    IF pos + size > Len(data)
    THEN [ok |-> "ok", val |-> from_le_bytes(SubSeq(data, pos + 1, Len(data))),
          pos |-> Len(data)]
    ELSE [ok |-> "ok", val |-> from_le_bytes(SubSeq(data, pos + 1, pos + size)),
          pos |-> pos + size]

\* read_impl!(reader, $ty, size): read_exact of size bytes, then from_le_bytes
read_impl(data, pos, size) ==
    IF pos + size > Len(data)
    THEN [ok |-> "io", val |-> 0, pos |-> Len(data)]
    ELSE [ok |-> "ok", val |-> from_le_bytes(SubSeq(data, pos + 1, pos + size)),
          pos |-> pos + size]

read_u64(data, pos) == read_impl(data, pos, 8)
read_u32(data, pos) == read_impl(data, pos, 4)
\* read_u16 with the two bytes taken big-endian (u16::from_be_bytes)
read_u16_be(data, pos) ==
    IF pos + 2 > Len(data)
    THEN [ok |-> "io", val |-> 0, pos |-> Len(data)]
    ELSE [ok |-> "ok", val |-> from_le_bytes(<< data[pos + 2], data[pos + 1] >>),
          pos |-> pos + 2]

read_u16(data, pos) == read_impl(data, pos, 2)
read_u8(data, pos) == read_impl(data, pos, 1)

\* a UTF-8 continuation byte
IsCont(b) == b >= 128 /\ b <= 191

\* the length of the well-formed UTF-8 sequence at the head of bs, 0 if none
Utf8Head(bs) ==
    LET n == Len(bs)
        b1 == bs[1]
        c2 == n >= 2 /\ IsCont(bs[2])
        c3 == n >= 3 /\ IsCont(bs[3])
        c4 == n >= 4 /\ IsCont(bs[4])
    IN  IF b1 < 128 THEN 1
        ELSE IF b1 >= 194 /\ b1 <= 223 THEN (IF c2 THEN 2 ELSE 0)
        ELSE IF b1 = 224 THEN (IF c2 /\ bs[2] >= 160 /\ c3 THEN 3 ELSE 0)
        ELSE IF b1 = 237 THEN (IF c2 /\ bs[2] <= 159 /\ c3 THEN 3 ELSE 0)
        ELSE IF b1 >= 225 /\ b1 <= 239 THEN (IF c2 /\ c3 THEN 3 ELSE 0)
        ELSE IF b1 = 240 THEN (IF c2 /\ bs[2] >= 144 /\ c3 /\ c4 THEN 4 ELSE 0)
        ELSE IF b1 = 244 THEN (IF c2 /\ bs[2] <= 143 /\ c3 /\ c4 THEN 4 ELSE 0)
        ELSE IF b1 >= 241 /\ b1 <= 243 THEN (IF c2 /\ c3 /\ c4 THEN 4 ELSE 0)
        ELSE 0

RECURSIVE from_utf8_ok(_)
\* std::str::from_utf8(&buffer) is Ok
from_utf8_ok(bs) ==
    IF bs = << >> THEN TRUE
    ELSE LET k == Utf8Head(bs)
         IN  k > 0 /\ from_utf8_ok(SubSeq(bs, k + 1, Len(bs)))

\* a pop that removes the last byte
pop_byte(str) ==
    IF str = << >> THEN << >> ELSE SubSeq(str, 1, Len(str) - 1)

\* String::pop: removes the last char (all of its bytes) of a non-empty string
pop(str) ==
    IF str = << >> THEN << >>
    ELSE LET start == CHOOSE i \in 1..Len(str) :
                          /\ ~IsCont(str[i])
                          /\ \A j \in (i + 1)..Len(str) : IsCont(str[j])
         IN  SubSeq(str, 1, start - 1)

\* read_string
read_string(data, pos) ==
    LET size == read_u32(data, pos)
    IN  IF size.ok # "ok" THEN size
        ELSE IF size.val = Wide \/ size.pos + size.val > Len(data)
        THEN [ok |-> "io", val |-> 0, pos |-> Len(data)]
        ELSE LET bytes == SubSeq(data, size.pos + 1, size.pos + size.val)
             IN  IF ~from_utf8_ok(bytes)
                 THEN [ok |-> "panic", val |-> 0, pos |-> size.pos + size.val]
                 ELSE [ok |-> "ok", val |-> pop(bytes), pos |-> size.pos + size.val]

\* a status mapping that does not know Shutdown
PINEStatus_from_two(i) ==
    CASE i = 0 -> "Running"
      [] i = 1 -> "Paused"
      [] OTHER -> "Unknown"

\* PINEStatus::from
PINEStatus_from(i) ==
    CASE i = 0 -> "Running"
      [] i = 1 -> "Paused"
      [] i = 2 -> "Shutdown"
      [] OTHER -> "Unknown"

\* one arm of the match in PINE::send: the read it makes and the response it builds
decode_one(command, data, pos) ==
    LET t == command.tag
        none == [ok |-> "ok", val |-> 0, pos |-> pos]
        r == CASE t = "MsgRead8" -> read_u8(data, pos)
               [] t = "MsgRead16" -> read_u16(data, pos)
               [] t = "MsgRead32" -> read_u32(data, pos)
               [] t = "MsgRead64" -> read_u64(data, pos)
               [] t \in {"MsgVersion", "MsgTitle", "MsgID", "MsgUUID", "MsgGameVersion"} ->
                     read_string(data, pos)
               [] t = "MsgStatus" -> read_u32(data, pos)
               [] OTHER -> none
        res == CASE t = "MsgRead8" -> [tag |-> "ResRead8", val |-> r.val]
                 [] t = "MsgRead16" -> [tag |-> "ResRead16", val |-> r.val]
                 [] t = "MsgRead32" -> [tag |-> "ResRead32", val |-> r.val]
                 [] t = "MsgRead64" -> [tag |-> "ResRead64", val |-> r.val]
                 [] t = "MsgWrite8" -> [tag |-> "ResWrite8"]
                 [] t = "MsgWrite16" -> [tag |-> "ResWrite16"]
                 [] t = "MsgWrite32" -> [tag |-> "ResWrite32"]
                 [] t = "MsgWrite64" -> [tag |-> "ResWrite64"]
                 [] t = "MsgVersion" -> [tag |-> "ResVersion", version |-> r.val]
                 [] t = "MsgSaveState" -> [tag |-> "ResSaveState"]
                 [] t = "MsgLoadState" -> [tag |-> "ResLoadState"]
                 [] t = "MsgTitle" -> [tag |-> "ResTitle", title |-> r.val]
                 [] t = "MsgID" -> [tag |-> "ResID", id |-> r.val]
                 [] t = "MsgUUID" -> [tag |-> "ResUUID", uuid |-> r.val]
                 [] t = "MsgGameVersion" -> [tag |-> "ResGameVersion", version |-> r.val]
                 [] t = "MsgStatus" ->
                       [tag |-> "ResStatus", status |-> PINEStatus_from(r.val)]
                 [] t = "MsgUnimplemented" -> [tag |-> "ResUnimplemented"]
    IN  [ok |-> r.ok, res |-> res, pos |-> r.pos]

RECURSIVE decode_loop(_, _, _, _)
\* the loop ended one command early
decode_loop_short(cmds, data, pos, res) ==
    IF Len(res) >= Len(cmds) - 1 THEN [kind |-> "Ok", val |-> res]
    ELSE LET d == decode_one(cmds[Len(res) + 1], data, pos)
         IN  IF d.ok = "io" THEN [kind |-> "IoErr", val |-> << >>]
             ELSE IF d.ok = "panic" THEN [kind |-> "Panic", val |-> << >>]
             ELSE decode_loop(cmds, data, d.pos, Append(res, d.res))

\* the loop over batch.commands of PINE::send; res is the
\* response vector so far.  Ends [kind, val]: "Ok" with the responses, "IoErr"
\* (the ? on a read) or "Panic" (the unwrap in read_string)
decode_loop(cmds, data, pos, res) ==
    IF Len(res) = Len(cmds) THEN [kind |-> "Ok", val |-> res]
    ELSE LET d == decode_one(cmds[Len(res) + 1], data, pos)
         IN  IF d.ok = "io" THEN [kind |-> "IoErr", val |-> << >>]
             ELSE IF d.ok = "panic" THEN [kind |-> "Panic", val |-> << >>]
             ELSE decode_loop(cmds, data, d.pos, Append(res, d.res))

RECURSIVE cursor_before(_, _, _)
\* the reader (Cursor) of PINE::send when its loop comes to command i: whether
\* the loop comes that far, and reader.position() then
cursor_before(cmds, data, i) ==
    IF i = 1 THEN [reached |-> TRUE, pos |-> 0]
    ELSE LET b == cursor_before(cmds, data, i - 1)
         IN  IF b.reached /\ decode_one(cmds[i - 1], data, b.pos).ok = "ok"
             THEN [reached |-> TRUE, pos |-> decode_one(cmds[i - 1], data, b.pos).pos]
             ELSE [reached |-> FALSE, pos |-> b.pos]

\* PINE::send after send_raw returned raw: the match on the result, then the loop
send_result(cmds, raw) ==
    IF raw.kind = "Ok" THEN decode_loop(cmds, raw.val, 0, << >>) ELSE raw

(***************************************************************************)
(* The wire format of the specification's opcode table (section 3), stated *)
(* apart from the code: what the properties below compare the code with.   *)
(***************************************************************************)
TableOpcode(tag) ==
    CASE tag = "MsgRead8" -> 0 [] tag = "MsgRead16" -> 1
      [] tag = "MsgRead32" -> 2 [] tag = "MsgRead64" -> 3
      [] tag = "MsgWrite8" -> 4 [] tag = "MsgWrite16" -> 5
      [] tag = "MsgWrite32" -> 6 [] tag = "MsgWrite64" -> 7
      [] tag = "MsgVersion" -> 8 [] tag = "MsgSaveState" -> 9
      [] tag = "MsgLoadState" -> 10 [] tag = "MsgTitle" -> 11
      [] tag = "MsgID" -> 12 [] tag = "MsgUUID" -> 13
      [] tag = "MsgGameVersion" -> 14 [] tag = "MsgStatus" -> 15
      [] tag = "MsgUnimplemented" -> 255

\* the width in bytes of the value field of a write command
TableValueWidth(tag) ==
    CASE tag = "MsgWrite8" -> 1 [] tag = "MsgWrite16" -> 2
      [] tag = "MsgWrite32" -> 4 [] tag = "MsgWrite64" -> 8

\* byte i (1 = least significant) of a value below 2^31
TableLeByte(v, i) ==
    CASE i = 1 -> v % 256
      [] i = 2 -> (v \div 256) % 256
      [] i = 3 -> (v \div 65536) % 256
      [] i = 4 -> v \div 16777216
      [] OTHER -> 0

TableLe(v, n) == [i \in 1..n |-> TableLeByte(v, i)]

\* the payload of a command: address, then value; or slot; or nothing
TablePayload(command) ==
    IF command.tag \in ReadTags THEN TableLe(command.mem, 4)
    ELSE IF command.tag \in {"MsgWrite8", "MsgWrite16", "MsgWrite32", "MsgWrite64"}
    THEN TableLe(command.mem, 4) \o TableLe(command.val, TableValueWidth(command.tag))
    ELSE IF command.tag \in StateTags THEN << command.sta >>
    ELSE << >>

\* the payload size of each command kind
TablePayloadLen(tag) ==
    IF tag \in ReadTags THEN 4
    ELSE IF tag = "MsgWrite8" THEN 5
    ELSE IF tag = "MsgWrite16" THEN 6
    ELSE IF tag = "MsgWrite32" THEN 8
    ELSE IF tag = "MsgWrite64" THEN 12
    ELSE IF tag \in StateTags THEN 1
    ELSE 0

TableEncode(command) == << TableOpcode(command.tag) >> \o TablePayload(command)

RECURSIVE TableEncodeAll(_)
TableEncodeAll(cs) ==
    IF cs = << >> THEN << >> ELSE TableEncode(Head(cs)) \o TableEncodeAll(Tail(cs))

RECURSIVE TableSize(_)
TableSize(cs) ==
    IF cs = << >> THEN 0
    ELSE 1 + TablePayloadLen(Head(cs).tag) + TableSize(Tail(cs))

(***************************************************************************)
(* The remote peer (the emulator's PINE server), from the wire format of   *)
(* the specification: it takes one length-prefixed request, parses it by   *)
(* the opcode table and writes one response frame                          *)
(*     u32 total_length_LE | u8 status | payload.                          *)
(***************************************************************************)
\* the value of little-endian bytes as the peer reads them
PeerLeValue(bs) ==
    IF ~FitsInt(bs) THEN Wide
    ELSE CASE Len(bs) = 1 -> bs[1]
           [] Len(bs) = 2 -> bs[1] + 256 * bs[2]
           [] OTHER -> bs[1] + 256 * bs[2] + 65536 * bs[3] + 16777216 * bs[4]

PeerTagOf(opcode) ==
    CASE opcode = 0 -> "MsgRead8" [] opcode = 1 -> "MsgRead16"
      [] opcode = 2 -> "MsgRead32" [] opcode = 3 -> "MsgRead64"
      [] opcode = 4 -> "MsgWrite8" [] opcode = 5 -> "MsgWrite16"
      [] opcode = 6 -> "MsgWrite32" [] opcode = 7 -> "MsgWrite64"
      [] opcode = 8 -> "MsgVersion" [] opcode = 9 -> "MsgSaveState"
      [] opcode = 10 -> "MsgLoadState" [] opcode = 11 -> "MsgTitle"
      [] opcode = 12 -> "MsgID" [] opcode = 13 -> "MsgUUID"
      [] opcode = 14 -> "MsgGameVersion" [] opcode = 15 -> "MsgStatus"
      [] opcode = 255 -> "MsgUnimplemented"
      [] OTHER -> "none"

\* the command at the head of the request bytes bs (its opcode and payload)
PeerCommand(tag, bs) ==
    IF tag \in ReadTags THEN [tag |-> tag, mem |-> PeerLeValue(SubSeq(bs, 2, 5))]
    ELSE IF tag \in {"MsgWrite8", "MsgWrite16", "MsgWrite32", "MsgWrite64"}
    THEN [tag |-> tag, mem |-> PeerLeValue(SubSeq(bs, 2, 5)),
          val |-> PeerLeValue(SubSeq(bs, 6, 5 + TableValueWidth(tag)))]
    ELSE IF tag \in StateTags THEN [tag |-> tag, sta |-> bs[2]]
    ELSE [tag |-> tag]

RECURSIVE PeerParse(_, _)
\* the commands of the request bytes bs after those of cmds: [ok, cmds]
PeerParse(bs, cmds) ==
    IF bs = << >> THEN [ok |-> TRUE, cmds |-> cmds]
    ELSE LET tag == PeerTagOf(bs[1])
         IN  IF tag = "none" \/ Len(bs) < 1 + TablePayloadLen(tag)
             THEN [ok |-> FALSE, cmds |-> cmds]
             ELSE PeerParse(SubSeq(bs, 2 + TablePayloadLen(tag), Len(bs)),
                            Append(cmds, PeerCommand(tag, bs)))

StringTags == {"MsgVersion", "MsgTitle", "MsgID", "MsgUUID", "MsgGameVersion"}

\* the values the peer may answer a command with: the memory it reads, the
\* string (without its terminator), the status code; 0 where there is no value
PeerValues(tag) ==
    CASE tag = "MsgRead8" -> {171, 7}
      [] tag = "MsgRead16" -> {258, 65535}
      [] tag = "MsgRead32" -> {16909060, 5}
      [] tag = "MsgRead64" -> {16909060, 2147483647}
      [] tag \in StringTags -> {<< >>, << 72, 195, 169 >>}
      [] tag = "MsgStatus" -> {0, 1, 2, 99}
      [] OTHER -> {0}

\* the result field of a command on the wire
PeerEncode(tag, value) ==
    CASE tag = "MsgRead8" -> TableLe(value, 1)
      [] tag = "MsgRead16" -> TableLe(value, 2)
      [] tag = "MsgRead32" -> TableLe(value, 4)
      [] tag = "MsgRead64" -> TableLe(value, 8)
      [] tag \in StringTags -> TableLe(Len(value) + 1, 4) \o value \o << 0 >>
      [] tag = "MsgStatus" -> TableLe(value, 4)
      [] OTHER -> << >>

RECURSIVE PeerValueSeqs(_)
\* every choice of one value per command
PeerValueSeqs(cmds) ==
    IF cmds = << >> THEN {<< >>}
    ELSE {<< v >> \o vs : v \in PeerValues(Head(cmds).tag), vs \in PeerValueSeqs(Tail(cmds))}

RECURSIVE PeerPayload(_, _)
\* the in-order concatenation of the result fields
PeerPayload(cmds, values) ==
    IF cmds = << >> THEN << >>
    ELSE PeerEncode(Head(cmds).tag, Head(values)) \o PeerPayload(Tail(cmds), Tail(values))

\* string fields that break the protocol: invalid UTF-8, no terminator after a
\* two-byte character, length 0
PeerBadStrings == {<< 2, 0, 0, 0, 255, 0 >>, << 3, 0, 0, 0, 65, 195, 169 >>, << 0, 0, 0, 0 >>}

RECURSIVE PeerBadPayload(_, _)
\* a payload whose string fields are all the broken field str
PeerBadPayload(cmds, str) ==
    IF cmds = << >> THEN << >>
    ELSE (IF Head(cmds).tag \in StringTags THEN str
          ELSE PeerEncode(Head(cmds).tag, CHOOSE v \in PeerValues(Head(cmds).tag) : TRUE))
         \o PeerBadPayload(Tail(cmds), str)

\* the frames that answer the commands cmds with success and well-formed results
PeerOkFrames(cmds) ==
    {[kind |-> "ok", status |-> 0, size |-> 5 + Len(PeerPayload(cmds, vs)),
      payload |-> PeerPayload(cmds, vs), values |-> vs] : vs \in PeerValueSeqs(cmds)}

\* the frames that report failure: a non-zero status, with a declared size of 5,
\* below 5, or above 5 with the declared bytes written or not
PeerFailFrames ==
    {[kind |-> "fail", status |-> f[1], size |-> f[2], payload |-> f[3], values |-> << >>] :
        f \in {<< 255, 5, << >> >>, << 1, 3, << >> >>, << 255, 7, << >> >>,
               << 255, 7, << 7, 0 >> >>}}

\* frames with status 0 that are not well-formed: a size below 5, a payload one
\* byte short of the results, a payload one byte short of the declared size,
\* broken string fields
PeerBadFrames(cmds) ==
    LET p == PeerPayload(cmds, CHOOSE vs \in PeerValueSeqs(cmds) : TRUE)
        cut == SubSeq(p, 1, Len(p) - 1)
        bad(size, payload) ==
            [kind |-> "bad", status |-> 0, size |-> size, payload |-> payload,
             values |-> << >>]
    IN  {bad(0, << >>), bad(4, << >>)}
        \cup (IF p = << >> THEN {}
              ELSE {bad(5 + Len(cut), cut), bad(5 + Len(p), cut)})
        \cup (IF \E i \in 1..Len(cmds) : cmds[i].tag \in StringTags
              THEN {bad(5 + Len(PeerBadPayload(cmds, str)), PeerBadPayload(cmds, str)) :
                        str \in PeerBadStrings}
              ELSE {})

\* the bytes of a frame
PeerFrameBytes(frame) == TableLe(frame.size, 4) \o << frame.status >> \o frame.payload

NoAnswer == [kind |-> "none", status |-> 0, size |-> 0, payload |-> << >>, values |-> << >>]

(***************************************************************************)
(* State.                                                                  *)
(***************************************************************************)
VARIABLES
    buffer,     \* PINEBatch.buffer
    commands,   \* PINEBatch.commands
    cleared,    \* clear() was called on the batch since it was made by new()
    lastOp,     \* the last operation on the batch
    mutex,      \* PINE.mutex: the caller holding the guard, 0 when unlocked
    poisoned,   \* PINE.mutex is poisoned: a caller panicked holding the guard
    toPeer,     \* PINE.socket, written bytes the peer has not taken: [b, req]
    fromPeer,   \* PINE.socket, bytes of the peer not yet read: [b, req, idx]
    peerOpen,   \* the peer has not closed the connection
    answers,    \* request id -> the frame the peer wrote for it
    calls,      \* the number of calls made on the client so far
    pc,         \* caller -> its position in send / send_raw
    mode,       \* caller -> "send" or "send_raw", the function it called
    req,        \* caller -> the id of its request
    out,        \* caller -> the bytes of its buffer that write_all still has to write
    res_size,   \* caller -> res_size of send_raw
    res_result, \* caller -> res_result of send_raw
    got,        \* caller -> the stream elements its call has read so far
    raw,        \* caller -> what send_raw returned
    result      \* caller -> what the call returned

batchVars == << buffer, commands, cleared, lastOp >>
socketVars == << toPeer, fromPeer, peerOpen, answers >>
callerVars == << calls, pc, mode, req, out, res_size, res_result, got, raw, result >>
clientVars == << mutex, poisoned, socketVars, callerVars >>
vars == << batchVars, clientVars >>

batch == [buffer |-> buffer, commands |-> commands]

Callers == 1..NCallers
Reqs == 1..(MaxSends + MaxRawCalls)

\* no value returned (yet)
None == [kind |-> "None", val |-> << >>]

\* PINE::connect returned the client: nothing written, nothing read, nobody calling
InitClient ==
    /\ mutex = 0
    /\ poisoned = FALSE
    /\ toPeer = << >>
    /\ fromPeer = << >>
    /\ peerOpen = TRUE
    /\ answers = [r \in Reqs |-> NoAnswer]
    /\ calls = 0
    /\ pc = [c \in Callers |-> "idle"]
    /\ mode = [c \in Callers |-> "send_raw"]
    /\ req = [c \in Callers |-> 0]
    /\ out = [c \in Callers |-> << >>]
    /\ res_size = [c \in Callers |-> 0]
    /\ res_result = [c \in Callers |-> 0]
    /\ got = [c \in Callers |-> << >>]
    /\ raw = [c \in Callers |-> None]
    /\ result = [c \in Callers |-> None]

(***************************************************************************)
(* SpecBatch: every sequence of new, add, clear and finalize on a batch.   *)
(***************************************************************************)
InitBatch ==
    /\ buffer = new.buffer
    /\ commands = new.commands
    /\ cleared = FALSE
    /\ lastOp = "new"
    /\ InitClient

New ==
    /\ buffer' = new.buffer
    /\ commands' = new.commands
    /\ cleared' = FALSE
    /\ lastOp' = "new"
    /\ UNCHANGED clientVars

Clear ==
    /\ buffer' = clear(batch).buffer
    /\ commands' = clear(batch).commands
    /\ cleared' = TRUE
    /\ lastOp' = "clear"
    /\ UNCHANGED clientVars

Add(command) ==
    /\ Len(commands) < MaxCmds
    /\ buffer' = add(batch, command).buffer
    /\ commands' = add(batch, command).commands
    /\ lastOp' = "add"
    /\ UNCHANGED << cleared, clientVars >>

Finalize ==
    /\ IF finalize_panics(batch)
       THEN /\ lastOp' = "finalize_panic"
            /\ UNCHANGED << buffer, commands, cleared >>
       ELSE /\ buffer' = finalize(batch).buffer
            /\ commands' = finalize(batch).commands
            /\ lastOp' = IF lastOp \in {"finalize", "finalize_again"}
                         THEN "finalize_again" ELSE "finalize"
            /\ UNCHANGED cleared
    /\ UNCHANGED clientVars

NextBatch ==
    \/ New
    \/ Clear
    \/ \E command \in PINECommand : Add(command)
    \/ Finalize

SpecBatch == InitBatch /\ [][NextBatch]_vars

(***************************************************************************)
(* PINE::send_raw and PINE::send, one action per blocking step of a call.  *)
(***************************************************************************)
\* the bytes of stream elements
Bytes(elems) == [i \in 1..Len(elems) |-> elems[i].b]

\* a lock that never waits
lock_free_always(c) == TRUE

\* Mutex::lock returns when no caller holds the guard
lock_free(c) == mutex = 0

\* what a call that ends returns: send_raw's value, decoded when send called it
Returns(c, r) ==
    /\ raw' = [raw EXCEPT ![c] = r]
    /\ result' = [result EXCEPT ![c] =
                     IF mode[c] = "send" THEN send_result(commands, r) ELSE r]
    /\ pc' = [pc EXCEPT ![c] = "done"]

\* read_exact of n bytes from the socket: the bytes when they are there, an
\* UnexpectedEof error when the peer closed before them (and it blocks otherwise)
CanRead(n) == Len(fromPeer) >= n \/ ~peerOpen

\* the caller reads what is there of the n bytes
Reads(c, n) ==
    LET k == IF Len(fromPeer) >= n THEN n ELSE Len(fromPeer)
    IN  /\ got' = [got EXCEPT ![c] = @ \o SubSeq(fromPeer, 1, k)]
        /\ fromPeer' = SubSeq(fromPeer, k + 1, Len(fromPeer))

IoErr == [kind |-> "IoErr", val |-> << >>]
Panic == [kind |-> "Panic", val |-> << >>]
Fail == [kind |-> "Fail", val |-> << >>]

\* PINE::send: batch.finalize(), then the call of send_raw
SendCall(c) ==
    /\ pc[c] = "idle"
    /\ calls < MaxSends
    /\ calls' = calls + 1
    /\ mode' = [mode EXCEPT ![c] = "send"]
    /\ req' = [req EXCEPT ![c] = calls + 1]
    /\ IF finalize_panics(batch)
       THEN /\ lastOp' = "finalize_panic"
            /\ raw' = [raw EXCEPT ![c] = Panic]
            /\ result' = [result EXCEPT ![c] = Panic]
            /\ pc' = [pc EXCEPT ![c] = "done"]
            /\ UNCHANGED << buffer, out >>
       ELSE /\ buffer' = finalize(batch).buffer
            /\ lastOp' = IF lastOp \in {"finalize", "finalize_again"}
                         THEN "finalize_again" ELSE "finalize"
            /\ out' = [out EXCEPT ![c] = finalize(batch).buffer]
            /\ pc' = [pc EXCEPT ![c] = "lock"]
            /\ UNCHANGED << raw, result >>
    /\ UNCHANGED << commands, cleared, mutex, poisoned, socketVars, res_size,
                    res_result, got >>

\* PINE::send_raw called with the bytes buf
SendRawCall(c, buf) ==
    /\ pc[c] = "idle"
    /\ calls < MaxRawCalls
    /\ calls' = calls + 1
    /\ mode' = [mode EXCEPT ![c] = "send_raw"]
    /\ req' = [req EXCEPT ![c] = calls + 1]
    /\ out' = [out EXCEPT ![c] = buf]
    /\ pc' = [pc EXCEPT ![c] = "lock"]
    /\ UNCHANGED << batchVars, mutex, poisoned, socketVars, res_size, res_result,
                    got, raw, result >>

\* self.mutex.lock().unwrap(): blocks while the guard is held, panics when the
\* mutex is poisoned
Lock(c) ==
    /\ pc[c] = "lock"
    /\ lock_free(c)
    /\ IF poisoned
       THEN /\ Returns(c, Panic)
            /\ UNCHANGED mutex
       ELSE /\ mutex' = c
            /\ pc' = [pc EXCEPT ![c] = "write"]
            /\ UNCHANGED << raw, result >>
    /\ UNCHANGED << batchVars, poisoned, socketVars, calls, mode, req, out,
                    res_size, res_result, got >>

\* self.socket.write_all(buffer)?: one write of at most WriteChunk bytes; the
\* write fails when the peer closed the connection, and the guard is dropped
Write(c) ==
    /\ pc[c] = "write"
    /\ IF ~peerOpen
       THEN /\ Returns(c, IoErr)
            /\ mutex' = 0
            /\ UNCHANGED << toPeer, out >>
       ELSE LET n == IF Len(out[c]) < WriteChunk THEN Len(out[c]) ELSE WriteChunk
            IN  /\ toPeer' = toPeer \o [i \in 1..n |-> [b |-> out[c][i], req |-> req[c]]]
                /\ out' = [out EXCEPT ![c] = SubSeq(@, n + 1, Len(@))]
                /\ pc' = [pc EXCEPT ![c] =
                             IF n = Len(out[c]) THEN "read_size" ELSE "write"]
                /\ UNCHANGED << mutex, raw, result >>
    /\ UNCHANGED << batchVars, poisoned, fromPeer, peerOpen, answers, calls, mode,
                    req, res_size, res_result, got >>

\* let res_size = read_u32(&mut self.socket)?
ReadSize(c) ==
    /\ pc[c] = "read_size"
    /\ CanRead(4)
    /\ Reads(c, 4)
    /\ IF Len(fromPeer) >= 4
       THEN /\ res_size' = [res_size EXCEPT ![c] = from_le_bytes(Bytes(SubSeq(fromPeer, 1, 4)))]
            /\ pc' = [pc EXCEPT ![c] = "read_status"]
            /\ UNCHANGED << mutex, raw, result >>
       ELSE /\ Returns(c, IoErr)
            /\ mutex' = 0
            /\ UNCHANGED res_size
    /\ UNCHANGED << batchVars, poisoned, toPeer, peerOpen, answers, calls, mode, req,
                    out, res_result >>

\* the status test taking only PINEResult::Fail = 255 for a failure
is_fail_255(status) == status = 255

\* a status byte that is never taken for a failure
is_fail_never(status) == FALSE

\* if res_result != 0
is_fail(status) == status # 0

\* let res_result = read_u8(&mut self.socket)?; Fail when it is not 0
ReadStatus(c) ==
    /\ pc[c] = "read_status"
    /\ CanRead(1)
    /\ Reads(c, 1)
    /\ IF Len(fromPeer) >= 1
       THEN /\ res_result' = [res_result EXCEPT ![c] = from_le_bytes(Bytes(SubSeq(fromPeer, 1, 1)))]
            /\ IF is_fail(from_le_bytes(Bytes(SubSeq(fromPeer, 1, 1))))
               THEN /\ Returns(c, Fail)
                    /\ mutex' = 0
               ELSE /\ pc' = [pc EXCEPT ![c] = "read_payload"]
                    /\ UNCHANGED << mutex, raw, result >>
       ELSE /\ Returns(c, IoErr)
            /\ mutex' = 0
            /\ UNCHANGED res_result
    /\ UNCHANGED << batchVars, poisoned, toPeer, peerOpen, answers, calls, mode, req,
                    out, res_size >>

\* vec![0; res_size as usize - 5] panics when res_size is below 5: the
\* subtraction overflows (debug build) or wraps to a capacity no Vec can have
\* (release build); the guard is dropped by the unwinding, which poisons the mutex
payload_panics(size) == size # Wide /\ size < 5

\* the payload taken one byte short (a header counted as 6 bytes)
payload_len_short(size) == IF size = Wide THEN Wide ELSE size - 6

\* the number of payload bytes read_exact asks for; Wide when the model cannot
\* hold it (no stream of the model is that long)
payload_len(size) == IF size = Wide THEN Wide ELSE size - 5

\* the payload: vec![0; res_size as usize - 5], then read_exact
ReadPayload(c) ==
    /\ pc[c] = "read_payload"
    /\ IF payload_panics(res_size[c])
       THEN /\ Returns(c, Panic)
            /\ poisoned' = TRUE
            /\ mutex' = 0
            /\ UNCHANGED << fromPeer, got >>
       ELSE LET n == payload_len(res_size[c])
            IN  IF n # Wide /\ Len(fromPeer) >= n
                THEN /\ Reads(c, n)
                     /\ Returns(c, [kind |-> "Ok", val |-> Bytes(SubSeq(fromPeer, 1, n))])
                     /\ mutex' = 0
                     /\ UNCHANGED poisoned
                ELSE /\ ~peerOpen
                     /\ Reads(c, Len(fromPeer))
                     /\ Returns(c, IoErr)
                     /\ mutex' = 0
                     /\ UNCHANGED poisoned
    /\ UNCHANGED << batchVars, toPeer, peerOpen, answers, calls, mode, req, out,
                    res_size, res_result >>

\* the caller takes the value its call returned
Return(c) ==
    /\ pc[c] = "done"
    /\ pc' = [pc EXCEPT ![c] = "idle"]
    /\ mode' = [mode EXCEPT ![c] = "send_raw"]
    /\ req' = [req EXCEPT ![c] = 0]
    /\ out' = [out EXCEPT ![c] = << >>]
    /\ res_size' = [res_size EXCEPT ![c] = 0]
    /\ res_result' = [res_result EXCEPT ![c] = 0]
    /\ got' = [got EXCEPT ![c] = << >>]
    /\ raw' = [raw EXCEPT ![c] = None]
    /\ result' = [result EXCEPT ![c] = None]
    /\ answers' = [answers EXCEPT ![req[c]] = NoAnswer]
    /\ UNCHANGED << batchVars, mutex, poisoned, toPeer, fromPeer, peerOpen, calls >>

(***************************************************************************)
(* The peer's steps.                                                       *)
(***************************************************************************)
\* the length the request at the head of the stream declares
PeerDeclared == PeerLeValue([i \in 1..4 |-> toPeer[i].b])

\* the number of bytes the peer takes as one request
PeerTakes == IF PeerDeclared = Wide \/ PeerDeclared < 4 THEN 4 ELSE PeerDeclared

\* a whole request has arrived
PeerReady == peerOpen /\ Len(toPeer) >= 4 /\ Len(toPeer) >= PeerTakes

\* the commands of the request at the head of the stream
PeerRequest == PeerParse(Bytes(SubSeq(toPeer, 5, PeerTakes)), << >>)

\* the peer takes the request and writes the frame as its answer
PeerWrites(frame) ==
    LET r == toPeer[1].req
        bytes == PeerFrameBytes(frame)
    IN  /\ toPeer' = SubSeq(toPeer, PeerTakes + 1, Len(toPeer))
        /\ fromPeer' = fromPeer \o [i \in 1..Len(bytes) |->
                                       [b |-> bytes[i], req |-> r, idx |-> i]]
        /\ answers' = [answers EXCEPT ![r] = frame]
        /\ UNCHANGED << batchVars, mutex, poisoned, peerOpen, callerVars >>

PeerAnswerOk ==
    /\ PeerReady
    /\ PeerRequest.ok
    /\ \E frame \in PeerOkFrames(PeerRequest.cmds) : PeerWrites(frame)

PeerAnswerFail ==
    /\ PeerReady
    /\ \E frame \in PeerFailFrames : PeerWrites(frame)

PeerAnswerBad ==
    /\ PeerReady
    /\ PeerRequest.ok
    /\ \E frame \in PeerBadFrames(PeerRequest.cmds) : PeerWrites(frame)

\* the peer closes the connection: reads past the bytes it wrote, and writes, fail
PeerClose ==
    /\ peerOpen
    /\ peerOpen' = FALSE
    /\ UNCHANGED << batchVars, mutex, poisoned, toPeer, fromPeer, answers, callerVars >>

(***************************************************************************)
(* SpecSend: one caller sends a batch made by new and add calls, up to     *)
(* MaxSends times over one connection.                                     *)
(***************************************************************************)
\* one command of every variant
AllCommands ==
    << [tag |-> "MsgRead8", mem |-> 16909060],
       [tag |-> "MsgRead16", mem |-> 255],
       [tag |-> "MsgRead32", mem |-> 16909060],
       [tag |-> "MsgRead64", mem |-> 255],
       [tag |-> "MsgWrite8", mem |-> 16909060, val |-> 171],
       [tag |-> "MsgWrite16", mem |-> 255, val |-> 258],
       [tag |-> "MsgWrite32", mem |-> 16909060, val |-> 16909060],
       [tag |-> "MsgWrite64", mem |-> 255, val |-> 2147483647],
       [tag |-> "MsgVersion"],
       [tag |-> "MsgSaveState", sta |-> 7],
       [tag |-> "MsgLoadState", sta |-> 0],
       [tag |-> "MsgTitle"],
       [tag |-> "MsgID"],
       [tag |-> "MsgUUID"],
       [tag |-> "MsgGameVersion"],
       [tag |-> "MsgStatus"],
       [tag |-> "MsgUnimplemented"] >>

\* the command lists of the batches sent: the empty one, every single command,
\* every pair of commands, and the longer lists that step through AllCommands
SendCommandLists ==
    {[j \in 1..n |-> AllCommands[((i + (j - 1) * step) % Len(AllCommands)) + 1]] :
        i \in 0..(Len(AllCommands) - 1), step \in 0..(Len(AllCommands) - 1),
        n \in 0..MaxSendCmds}

RECURSIVE BatchOf(_)
\* PINEBatch::new() followed by an add of every command of cmds
BatchOf(cmds) ==
    IF cmds = << >> THEN new
    ELSE add(BatchOf(SubSeq(cmds, 1, Len(cmds) - 1)), cmds[Len(cmds)])

InitSend ==
    /\ \E cmds \in SendCommandLists :
          /\ buffer = BatchOf(cmds).buffer
          /\ commands = BatchOf(cmds).commands
          /\ lastOp = IF cmds = << >> THEN "new" ELSE "add"
    /\ cleared = FALSE
    /\ InitClient

NextSend ==
    \/ SendCall(1)
    \/ Lock(1)
    \/ Write(1)
    \/ ReadSize(1)
    \/ ReadStatus(1)
    \/ ReadPayload(1)
    \/ Return(1)
    \/ PeerAnswerOk
    \/ PeerAnswerFail
    \/ PeerAnswerBad
    \/ PeerClose

SpecSend == InitSend /\ [][NextSend]_vars

(***************************************************************************)
(* SpecConc: the threads that share one client call send_raw, up to        *)
(* MaxRawCalls times altogether.                                           *)
(***************************************************************************)
\* the buffers the callers pass to send_raw: finalized batches of one command
RawBuffers ==
    {finalize(BatchOf(<< command >>)).buffer :
        command \in {[tag |-> "MsgRead8", mem |-> 255], [tag |-> "MsgStatus"]}}

InitConc ==
    /\ buffer = new.buffer
    /\ commands = new.commands
    /\ cleared = FALSE
    /\ lastOp = "new"
    /\ InitClient

NextConc ==
    \/ \E c \in Callers :
          \/ \E buf \in RawBuffers : SendRawCall(c, buf)
          \/ Lock(c)
          \/ Write(c)
          \/ ReadSize(c)
          \/ ReadStatus(c)
          \/ ReadPayload(c)
          \/ Return(c)
    \/ PeerAnswerOk
    \/ PeerAnswerFail
    \/ PeerAnswerBad
    \/ PeerClose

SpecConc == InitConc /\ [][NextConc]_vars

(***************************************************************************)
(* SpecCoop: the callers of SpecConc with a cooperative peer, which stays  *)
(* connected and answers every request with one complete frame (size,      *)
(* status, size - 5 payload bytes).  Every step of a call that can be      *)
(* taken is taken, the guard is granted fairly to the callers waiting for  *)
(* it, and the peer answers every request that has arrived.                *)
(***************************************************************************)
\* the complete frames: the well-formed results with status 0, and the failure
\* frames whose declared payload bytes are all written
PeerCompleteFrames(cmds) ==
    PeerOkFrames(cmds) \cup {f \in PeerFailFrames : f.size = 5 + Len(f.payload)}

PeerAnswerComplete ==
    /\ PeerReady
    /\ PeerRequest.ok
    /\ \E cmds \in {PeerRequest.cmds} :
          \E frame \in PeerCompleteFrames(cmds) : PeerWrites(frame)

NextCoop ==
    \/ \E c \in Callers :
          \/ \E buf \in RawBuffers : SendRawCall(c, buf)
          \/ Lock(c)
          \/ Write(c)
          \/ ReadSize(c)
          \/ ReadStatus(c)
          \/ ReadPayload(c)
          \/ Return(c)
    \/ PeerAnswerComplete

\* the steps of a call between taking the guard and returning
\* (blocking calls return when they can: WF; Mutex::lock is granted to every
\* caller that keeps waiting while the guard is released again and again: SF)
Exchange(c) == Write(c) \/ ReadSize(c) \/ ReadStatus(c) \/ ReadPayload(c)

FairCoop ==
    /\ \A c \in Callers : SF_vars(Lock(c)) /\ WF_vars(Exchange(c))
    /\ WF_vars(PeerAnswerComplete)

SpecCoop == InitConc /\ [][NextCoop]_vars /\ FairCoop

(***************************************************************************)
(* Properties of the batch encoder, checked under SpecBatch.               *)
(***************************************************************************)
\* C6: in every state reachable by new, add, clear and finalize the first four
\* bytes of the buffer are the reserved length field and the bytes after them
\* are exactly the encodings of the commands of the command list, in order.
C6_BatchInvariant ==
    /\ Len(buffer) >= 4
    /\ SubSeq(buffer, 5, Len(buffer)) = TableEncodeAll(commands)

\* C7: finalize on a buffer of k bytes writes the little-endian u32 k into
\* bytes [0,4) and returns a buffer of exactly k bytes.
C7_FinalizeWritesTotalLength ==
    [][lastOp' \in {"finalize", "finalize_again"} =>
          /\ Len(buffer') = Len(buffer)
          /\ SubSeq(buffer', 1, 4) = TableLe(Len(buffer), 4)
          /\ SubSeq(buffer', 5, Len(buffer')) = SubSeq(buffer, 5, Len(buffer))]_vars

\* a batch made by new and two adds has been finalized: 4 + 13 + 2 bytes
C7_Witness ==
    /\ lastOp = "finalize"
    /\ ~cleared
    /\ Len(commands) = 2
    /\ commands[1].tag = "MsgWrite64"
    /\ commands[2].tag = "MsgSaveState"
    /\ SubSeq(buffer, 1, 4) = << 19, 0, 0, 0 >>

\* C8: a finalize that follows a finalize with no operation in between leaves
\* the buffer (bytes and length) and the command list as the first one left them.
C8_FinalizeIdempotent ==
    [][lastOp' = "finalize_again" => buffer' = buffer /\ commands' = commands]_vars

\* finalize has been called twice in a row on a batch of two commands
C8_Witness ==
    /\ lastOp = "finalize_again"
    /\ Len(commands) = 2
    /\ buffer[1] = Len(buffer)

\* C10: add appends the opcode byte of the opcode table and then the payload in
\* little-endian order, and nothing else; after new and any sequence of adds
\* the buffer holds 4 bytes plus the sizes of the commands.
C10_AddAppendsEncoding ==
    /\ [](~cleared => Len(buffer) = 4 + TableSize(commands))
    /\ [][lastOp' = "add" =>
            /\ Len(commands') = Len(commands) + 1
            /\ SubSeq(commands', 1, Len(commands)) = commands
            /\ buffer' = buffer \o TableEncode(commands'[Len(commands')])]_vars

\* a 16-bit write has been added after a 64-bit write
C10_Witness ==
    /\ lastOp = "add"
    /\ ~cleared
    /\ Len(commands) = 2
    /\ commands[1].tag = "MsgWrite64"
    /\ commands[2] = [tag |-> "MsgWrite16", mem |-> 16909060, val |-> 258]
    /\ Len(buffer) = 4 + 13 + 7

\* an add of a MsgWrite32 command has just been made
AddedWrite32 ==
    /\ lastOp' = "add"
    /\ Len(commands') = Len(commands) + 1
    /\ commands'[Len(commands')].tag = "MsgWrite32"

\* C11 as stated: for every address and value, adding a Write32 command
\* encodes the opcode byte followed by 9 payload bytes (the buffer grows by the
\* opcode byte plus 9 bytes).
C11_Write32NinePayloadBytes ==
    [][AddedWrite32 => Len(buffer') = Len(buffer) + 1 + 9]_vars

\* C11 amended: for every address and value, adding a Write32 command appends
\* the opcode byte 6 followed by 8 payload bytes, the 4-byte little-endian
\* address and the 4-byte little-endian value (the buffer grows by 9 bytes).
C11_Write32EightPayloadBytes ==
    [][AddedWrite32 =>
          LET command == commands'[Len(commands')]
          IN  /\ Len(buffer') = Len(buffer) + 1 + 8
              /\ SubSeq(buffer', 1, Len(buffer)) = buffer
              /\ buffer'[Len(buffer) + 1] = 6
              /\ SubSeq(buffer', Len(buffer) + 2, Len(buffer) + 5) = TableLe(command.mem, 4)
              /\ SubSeq(buffer', Len(buffer) + 6, Len(buffer) + 9) = TableLe(command.val, 4)]_vars

\* Write32 of the value 0x01020304 to the address 0xFF has been added to a new
\* batch: 4 + 9 bytes
C11_Witness ==
    /\ lastOp = "add"
    /\ ~cleared
    /\ commands = << [tag |-> "MsgWrite32", mem |-> 255, val |-> 16909060] >>
    /\ buffer = << 0, 0, 0, 0, 6, 255, 0, 0, 0, 4, 3, 2, 1 >>

(***************************************************************************)
(* What the specification expects of a response (sections 3 and 4.5).      *)
(***************************************************************************)
TableResTag(tag) ==
    CASE tag = "MsgRead8" -> "ResRead8" [] tag = "MsgRead16" -> "ResRead16"
      [] tag = "MsgRead32" -> "ResRead32" [] tag = "MsgRead64" -> "ResRead64"
      [] tag = "MsgWrite8" -> "ResWrite8" [] tag = "MsgWrite16" -> "ResWrite16"
      [] tag = "MsgWrite32" -> "ResWrite32" [] tag = "MsgWrite64" -> "ResWrite64"
      [] tag = "MsgVersion" -> "ResVersion" [] tag = "MsgSaveState" -> "ResSaveState"
      [] tag = "MsgLoadState" -> "ResLoadState" [] tag = "MsgTitle" -> "ResTitle"
      [] tag = "MsgID" -> "ResID" [] tag = "MsgUUID" -> "ResUUID"
      [] tag = "MsgGameVersion" -> "ResGameVersion" [] tag = "MsgStatus" -> "ResStatus"
      [] tag = "MsgUnimplemented" -> "ResUnimplemented"

TableStatus(code) ==
    IF code = 0 THEN "Running" ELSE IF code = 1 THEN "Paused"
    ELSE IF code = 2 THEN "Shutdown" ELSE "Unknown"

\* the response to a command the peer answered with value
TableResponse(tag, value) ==
    CASE tag \in ReadTags -> [tag |-> TableResTag(tag), val |-> value]
      [] tag \in {"MsgVersion", "MsgGameVersion"} ->
            [tag |-> TableResTag(tag), version |-> value]
      [] tag = "MsgTitle" -> [tag |-> "ResTitle", title |-> value]
      [] tag = "MsgID" -> [tag |-> "ResID", id |-> value]
      [] tag = "MsgUUID" -> [tag |-> "ResUUID", uuid |-> value]
      [] tag = "MsgStatus" -> [tag |-> "ResStatus", status |-> TableStatus(value)]
      [] OTHER -> [tag |-> TableResTag(tag)]

\* the call of c has read only bytes of the frame the peer wrote for its own
\* request, from the first byte of that frame on
InSync(c) ==
    \A i \in 1..Len(got[c]) : got[c][i].req = req[c] /\ got[c][i].idx = i

\* the call of c has read a response header: the size it declares, its status
HeaderRead(c) == Len(got[c]) >= 5
HeaderSize(c) == PeerLeValue(Bytes(SubSeq(got[c], 1, 4)))
HeaderStatus(c) == got[c][5].b

(***************************************************************************)
(* Properties of send and send_raw with one caller, checked under SpecSend. *)
(***************************************************************************)
\* C1: when the peer answers a batch of N commands with status 0 and the
\* in-order concatenation of well-formed results, and send read that frame,
\* send returns Ok with exactly N responses, response i being the variant of
\* command i; and whenever send returns Ok it returns N such responses.
C1_OneResponsePerCommand ==
    \A c \in Callers :
        (pc[c] = "done" /\ mode[c] = "send") =>
            /\ (answers[req[c]].kind = "ok" /\ InSync(c)) => result[c].kind = "Ok"
            /\ result[c].kind = "Ok" =>
                  /\ Len(result[c].val) = Len(commands)
                  /\ \A i \in 1..Len(commands) :
                        result[c].val[i].tag = TableResTag(commands[i].tag)

\* send returned the responses of a batch of a string query and a 64-bit read
C1_Witness ==
    /\ pc[1] = "done"
    /\ mode[1] = "send"
    /\ answers[req[1]].kind = "ok"
    /\ result[1].kind = "Ok"
    /\ Len(commands) = 2
    /\ commands[1].tag = "MsgTitle"
    /\ commands[2].tag = "MsgRead64"
    /\ result[1].val[1].tag = "ResTitle"
    /\ result[1].val[2].tag = "ResRead64"

\* C4: when the status byte of the response is not 0, send_raw and send return
\* Fail whatever total length the header declares, and Fail carries no data.
C4_NonZeroStatusFails ==
    \A c \in Callers :
        (HeaderRead(c) /\ HeaderStatus(c) # 0) =>
            /\ pc[c] = "done"
            /\ raw[c] = [kind |-> "Fail", val |-> << >>]
            /\ result[c] = [kind |-> "Fail", val |-> << >>]

\* send returned Fail for a frame of status 1 that declares a total size of 3
C4_Witness ==
    /\ pc[1] = "done"
    /\ mode[1] = "send"
    /\ HeaderRead(1)
    /\ HeaderStatus(1) = 1
    /\ HeaderSize(1) = 3
    /\ result[1].kind = "Fail"
    /\ Len(commands) = 2

\* C5: when the status byte is 0 and the declared total size is S >= 5, a
\* send_raw that returns without an I/O error has read exactly S - 5 bytes after
\* the 5 header bytes and returns exactly those bytes (none for S = 5); until it
\* returns it has read the header alone.
C5_PayloadIsSizeMinusFive ==
    \A c \in Callers :
        (HeaderRead(c) /\ HeaderStatus(c) = 0 /\ HeaderSize(c) # Wide /\ HeaderSize(c) >= 5) =>
            /\ pc[c] = "read_payload" => Len(got[c]) = 5
            /\ (pc[c] = "done" /\ raw[c].kind # "IoErr") =>
                  /\ raw[c].kind = "Ok"
                  /\ Len(got[c]) = HeaderSize(c)
                  /\ raw[c].val = Bytes(SubSeq(got[c], 6, HeaderSize(c)))

\* send_raw returned the empty payload of a frame of total size 5
C5_Witness ==
    /\ pc[1] = "done"
    /\ HeaderRead(1)
    /\ HeaderStatus(1) = 0
    /\ HeaderSize(1) = 5
    /\ raw[1] = [kind |-> "Ok", val |-> << >>]
    /\ Len(got[1]) = 5

\* C9: a peer that parses the finalized buffer by the opcode table recovers the
\* command list of the batch, and when it answers every command with a matching
\* result, send returns for each read the value the peer supplied, for each
\* write and state command the payload-free marker, for each string query the
\* string and for the status query the mapped status.
C9_RoundTrip ==
    /\ (lastOp \in {"finalize", "finalize_again"} /\ ~cleared) =>
          /\ PeerLeValue(SubSeq(buffer, 1, 4)) = Len(buffer)
          /\ PeerParse(SubSeq(buffer, 5, Len(buffer)), << >>) =
                 [ok |-> TRUE, cmds |-> commands]
    /\ \A c \in Callers :
          (pc[c] = "done" /\ mode[c] = "send" /\ answers[req[c]].kind = "ok" /\ InSync(c)) =>
              /\ result[c].kind = "Ok"
              /\ Len(result[c].val) = Len(commands)
              /\ \A i \in 1..Len(commands) :
                    result[c].val[i] =
                        TableResponse(commands[i].tag, answers[req[c]].values[i])

\* send returned the 16-bit value 0x0102 and the status Shutdown the peer supplied
C9_Witness ==
    /\ pc[1] = "done"
    /\ mode[1] = "send"
    /\ commands = << [tag |-> "MsgRead16", mem |-> 255], [tag |-> "MsgStatus"] >>
    /\ answers[req[1]].values = << 258, 2 >>
    /\ result[1] = [kind |-> "Ok",
                    val |-> << [tag |-> "ResRead16", val |-> 258],
                               [tag |-> "ResStatus", status |-> "Shutdown"] >>]

(***************************************************************************)
(* Properties of the response decoder, checked under SpecSend.             *)
(***************************************************************************)
\* a whole string field (u32 length, then that many bytes) lies at offset p
StringFieldAt(data, p) ==
    /\ p + 4 <= Len(data)
    /\ PeerLeValue(SubSeq(data, p + 1, p + 4)) # Wide
    /\ p + 4 + PeerLeValue(SubSeq(data, p + 1, p + 4)) <= Len(data)

\* its declared length and its bytes
FieldLen(data, p) == PeerLeValue(SubSeq(data, p + 1, p + 4))
FieldBytes(data, p) == SubSeq(data, p + 5, p + 4 + FieldLen(data, p))

\* send called send_raw, which returned a payload, and send has ended
Decoded(c) == pc[c] = "done" /\ mode[c] = "send" /\ raw[c].kind = "Ok"

\* C12: when a string field of a status-0 response payload holds bytes that are
\* not valid UTF-8, send ends with an error result returned to the caller (the
\* Err arm of its io::Result), the remaining commands are not decoded and no
\* response list is returned.
C12_InvalidUtf8IsErrorResult ==
    \A c \in Callers :
        Decoded(c) =>
            \A i \in 1..Len(commands) :
                LET b == cursor_before(commands, raw[c].val, i)
                IN  (/\ commands[i].tag \in StringTags
                     /\ b.reached
                     /\ StringFieldAt(raw[c].val, b.pos)
                     /\ ~from_utf8_ok(FieldBytes(raw[c].val, b.pos))) =>
                        result[c] = [kind |-> "IoErr", val |-> << >>]

\* the string a response carries
StringOf(res) ==
    CASE res.tag \in {"ResVersion", "ResGameVersion"} -> res.version
      [] res.tag = "ResTitle" -> res.title
      [] res.tag = "ResID" -> res.id
      [] res.tag = "ResUUID" -> res.uuid

\* the number of bytes of the last character of a non-empty UTF-8 string
LastCharLen(str) ==
    CHOOSE k \in 1..4 :
        k <= Len(str) /\ Utf8Head(SubSeq(str, Len(str) - k + 1, Len(str))) = k

\* the loop of send came to the string query i of the batch of c with the
\* cursor on a whole field of L >= 1 bytes of valid UTF-8
ValidStringField(c, i) ==
    LET b == cursor_before(commands, raw[c].val, i)
    IN  /\ commands[i].tag \in StringTags
        /\ b.reached
        /\ StringFieldAt(raw[c].val, b.pos)
        /\ FieldLen(raw[c].val, b.pos) >= 1
        /\ from_utf8_ok(FieldBytes(raw[c].val, b.pos))

C14_StatusMappingTotal ==
    \A c \in Callers :
        Decoded(c) =>
            \A i \in 1..Len(commands) :
                LET b == cursor_before(commands, raw[c].val, i)
                    d == decode_one(commands[i], raw[c].val, b.pos)
                    v == PeerLeValue(SubSeq(raw[c].val, b.pos + 1, b.pos + 4))
                IN  (/\ commands[i].tag = "MsgStatus"
                     /\ b.reached
                     /\ b.pos + 4 <= Len(raw[c].val)) =>
                        /\ d.ok = "ok"
                        /\ d.pos = b.pos + 4
                        /\ d.res.tag = "ResStatus"
                        /\ v = 0 => d.res.status = "Running"
                        /\ v = 1 => d.res.status = "Paused"
                        /\ v = 2 => d.res.status = "Shutdown"
                        /\ v \notin {0, 1, 2} => d.res.status = "Unknown"
                        /\ result[c].kind = "Ok" => result[c].val[i] = d.res

\* send decoded the status value 2 as Shutdown and then the value 99 as Unknown
C14_Witness ==
    /\ Decoded(1)
    /\ commands = << [tag |-> "MsgStatus"], [tag |-> "MsgStatus"] >>
    /\ raw[1].val = << 2, 0, 0, 0, 99, 0, 0, 0 >>
    /\ result[1] = [kind |-> "Ok",
                    val |-> << [tag |-> "ResStatus", status |-> "Shutdown"],
                               [tag |-> "ResStatus", status |-> "Unknown"] >>]

\* C15: on a non-zero status byte send_raw has consumed exactly 5 bytes of the
\* response stream (4 size bytes, 1 status byte) when it returns: it reads none
\* of the declared payload bytes, and those the peer wrote stay unread at the
\* head of the stream.
C15_FailConsumesHeaderOnly ==
    \A c \in Callers :
        (HeaderRead(c) /\ HeaderStatus(c) # 0) =>
            /\ Len(got[c]) = 5
            /\ InSync(c) =>
                  LET rest == answers[req[c]].payload
                  IN  /\ Len(fromPeer) >= Len(rest)
                      /\ \A k \in 1..Len(rest) :
                            fromPeer[k] = [b |-> rest[k], req |-> req[c], idx |-> 5 + k]

\* send_raw returned Fail for a frame of total size 7 and left its 2 payload
\* bytes in the stream
C15_Witness ==
    /\ pc[1] = "done"
    /\ raw[1].kind = "Fail"
    /\ InSync(1)
    /\ HeaderSize(1) = 7
    /\ HeaderStatus(1) = 255
    /\ Len(got[1]) = 5
    /\ Bytes(fromPeer) = << 7, 0 >>

\* C17: for every response header with status 0, whatever total size S it
\* declares (also S < 5), send_raw ends with a returned result, the payload or
\* an I/O error, and never with an arithmetic underflow or abort.
C17_PayloadLengthNeverUnderflows ==
    \A c \in Callers :
        (pc[c] = "done" /\ HeaderRead(c) /\ HeaderStatus(c) = 0) =>
            raw[c].kind \in {"Ok", "IoErr"}

\* the number of payload bytes the response to a command of the variant tag
\* takes when the field starts at offset p
TableResWidth(tag, data, p) ==
    CASE tag = "MsgRead8" -> 1
      [] tag = "MsgRead16" -> 2
      [] tag = "MsgRead32" -> 4
      [] tag = "MsgRead64" -> 8
      [] tag = "MsgStatus" -> 4
      [] tag \in StringTags -> 4 + FieldLen(data, p)
      [] OTHER -> 0

\* the field of a command of the variant tag lies whole in the payload at p
FieldComplete(tag, data, p) ==
    IF tag \in StringTags THEN StringFieldAt(data, p)
    ELSE p + TableResWidth(tag, data, p) <= Len(data)

\* C18: response decoding walks the payload once with a cursor that only moves
\* forward: command i is decoded at the offset where command i - 1 ended and
\* consumes exactly the width of its variant (1/2/4/8 bytes for the reads, 4
\* for Status, 4 + length for strings, 0 for the others); when the payload
\* ends before the field of some command is complete, send returns an I/O
\* error, and a response list it returns is never shortened.
C18_CursorWalksForward ==
    \A c \in Callers :
        Decoded(c) =>
            /\ \A i \in 1..Len(commands) :
                  LET b == cursor_before(commands, raw[c].val, i)
                      tag == commands[i].tag
                      d == decode_one(commands[i], raw[c].val, b.pos)
                  IN  b.reached =>
                        /\ b.pos >= 0 /\ b.pos <= Len(raw[c].val)
                        /\ i > 1 => b.pos >= cursor_before(commands, raw[c].val, i - 1).pos
                        /\ FieldComplete(tag, raw[c].val, b.pos) =>
                              /\ d.ok \in {"ok", "panic"}
                              /\ d.pos = b.pos + TableResWidth(tag, raw[c].val, b.pos)
                              /\ d.ok = "panic" => tag \in StringTags
                        /\ ~FieldComplete(tag, raw[c].val, b.pos) =>
                              /\ d.ok = "io"
                              /\ result[c] = [kind |-> "IoErr", val |-> << >>]
            /\ result[c].kind = "Ok" =>
                  /\ Len(result[c].val) = Len(commands)
                  /\ \A i \in 1..Len(commands) :
                        LET b == cursor_before(commands, raw[c].val, i)
                        IN  b.reached /\ FieldComplete(commands[i].tag, raw[c].val, b.pos)

\* send decoded the 8 bytes of a 64-bit read and then found 3 bytes where the
\* 4 bytes of the status were due: it returned an I/O error
C18_Witness ==
    /\ Decoded(1)
    /\ Len(commands) = 2
    /\ commands[1].tag = "MsgRead64"
    /\ commands[2].tag = "MsgStatus"
    /\ Len(raw[1].val) = 11
    /\ cursor_before(commands, raw[1].val, 2) = [reached |-> TRUE, pos |-> 8]
    /\ result[1] = [kind |-> "IoErr", val |-> << >>]

(***************************************************************************)
(* Properties of the callers that share one client, checked under SpecConc. *)
(***************************************************************************)
\* the caller is between the first write of its request and the end of the
\* read of its response
InExchange(c) == pc[c] \in {"write", "read_size", "read_status", "read_payload"}

\* C2: the exchanges of the callers of one client are serialized: at most one
\* caller is between the start of its write and the end of its read, it holds
\* the guard, and the request bytes of two callers never interleave on the wire.
C2_ExchangesSerialized ==
    /\ \A c, d \in Callers : (InExchange(c) /\ InExchange(d)) => c = d
    /\ \A c \in Callers : InExchange(c) => mutex = c
    /\ \A i, k \in 1..Len(toPeer) :
          (i < k /\ toPeer[i].req = toPeer[k].req) =>
              \A j \in i..k : toPeer[j].req = toPeer[i].req

\* one caller has written its request and reads the response while the other
\* waits for the guard
C2_Witness ==
    /\ pc[1] = "read_payload"
    /\ pc[2] = "lock"
    /\ mutex = 1

\* C3: every call reads exactly the bytes of the response frame the peer wrote
\* for its own request, starting at the first byte of that frame, also after an
\* earlier request was answered with a non-zero status and a total size above 5.
C3_ReadsOwnFrameOnly ==
    \A c \in Callers : InSync(c)

\* no caller is inside the exchange of send_raw: each is outside a call, has
\* returned, or is about to acquire the guard
NoCallInProgress == \A c \in Callers : ~InExchange(c)

\* C19: the guard is released on every way out of send_raw: a call that ended
\* with a payload, with Fail or with an I/O error does not hold the guard, and
\* whenever no call is in progress the guard is free and usable, so that a
\* later send_raw acquires it and proceeds.
C19_GuardFreeAndUsable ==
    /\ \A c \in Callers :
          (pc[c] = "done" /\ raw[c].kind \in {"Ok", "Fail", "IoErr"}) => mutex # c
    /\ NoCallInProgress => (mutex = 0 /\ ~poisoned)

(***************************************************************************)
(* Termination, checked under SpecCoop.                                    *)
(***************************************************************************)
\* C16: with a peer that answers every written batch with one complete frame
\* and a guard that is granted fairly, every call of every caller sharing the
\* client eventually returns; and no call that has written its request returns
\* before it has read a response header from the peer.
C16_EveryCallReturns ==
    /\ \A c \in Callers : (pc[c] = "lock") ~> (pc[c] = "done")
    /\ [](\A c \in Callers :
             (pc[c] = "done" /\ raw[c].kind # "Panic") => Len(got[c]) >= 5)

====
